---------------------------- MODULE Spec2Model ----------------------------
(***************************************************************************)
(* Hansard monitor: the scanner (scan_and_download.py) and the digester    *)
(* (send_email_all.py), chained through new_files.txt.                     *)
(*                                                                         *)
(* A Python str is modelled as a tuple of one-character strings, so that   *)
(* the regular-expression steps of sanitize, split_paragraphs and the      *)
(* keyword pattern are computed character by character.                    *)
(***************************************************************************)
EXTENDS Integers, Sequences, FiniteSets, TLC

(***************************************************************************)
(* Bounds of the model.                                                    *)
(***************************************************************************)
MaxTitleLen == 4
MaxTextLen == 7
MaxRadius == 2
\* rows the portal's result table may hold
MaxRows == 3
\* MAX_RESULTS of the environment (scan_and_download.py 25), kept small
MAX_RESULTS == 2
\* invocations of the scanner and of the digester in one behaviour
MaxRuns == 3

(***************************************************************************)
(* Characters.                                                             *)
(***************************************************************************)
\* the characters a title is drawn from: a letter, the replacement
\* character, a space, a tab (whitespace outside the allowed class) and a
\* slash (a non-whitespace character outside the allowed class)
TitleChars == {"a", "_", " ", "\t", "/"}

\* the characters a transcript is drawn from: the keyword "k", another word
\* character, a space and a newline
TextChars == {"k", "w", " ", "\n"}

\* the class [a-zA-Z0-9._ -] of sanitize, restricted to the characters used
AllowedChars == {"a", "k", "w", ".", "_", " ", "-", "t", "x"}

\* \s of Python's re, and the characters str.strip() removes
Whitespace == {" ", "\t", "\n", "\r"}

\* \w of Python's re, restricted to the characters used
WordChars == {"a", "k", "w", "_", "t", "x"}

Strings(chars, n) == UNION {[1..m -> chars] : m \in 0..n}

Max(a, b) == IF a >= b THEN a ELSE b
Min(a, b) == IF a <= b THEN a ELSE b

(***************************************************************************)
(* str.strip()                                                             *)
(***************************************************************************)
Strip(s) ==
    LET keep == {i \in 1..Len(s) : s[i] \notin Whitespace}
    IN  IF keep = {} THEN <<>>
        ELSE LET lo == CHOOSE i \in keep : \A j \in keep : i <= j
                 hi == CHOOSE i \in keep : \A j \in keep : i >= j
             IN  SubSeq(s, lo, hi)

(***************************************************************************)
(* sanitize  (scan_and_download.py 28-31)                                  *)
(***************************************************************************)
\* re.sub(r"[^a-zA-Z0-9._ -]", "_", name)
SubDisallowed(s) == [i \in 1..Len(s) |-> IF s[i] \in AllowedChars THEN s[i] ELSE "_"]

\* re.sub(r"\s+", " ", safe): every maximal run of whitespace becomes one space
RECURSIVE CollapseWs(_)
CollapseWs(s) ==
    IF s = <<>> THEN <<>>
    ELSE IF Head(s) \in Whitespace
         THEN LET nonws == {i \in 1..Len(s) : s[i] \notin Whitespace}
                  nxt == IF nonws = {} THEN Len(s) + 1
                         ELSE CHOOSE i \in nonws : \A j \in nonws : i <= j
              IN  <<" ">> \o CollapseWs(SubSeq(s, nxt, Len(s)))
         ELSE <<Head(s)>> \o CollapseWs(Tail(s))

\* a slip that forgets the .strip() of line 29
sanitize_nostrip(name) == CollapseWs(SubDisallowed(name))

sanitize(name) == CollapseWs(Strip(SubDisallowed(name)))

(***************************************************************************)
(* split_paragraphs, pattern, digest_for  (send_email_all.py 41-61)        *)
(***************************************************************************)
\* KEYWORDS, here the single keyword "k"
Keyword == "k"

\* pattern.search(p): \b(k)\b matches somewhere in p
PatternSearch(p) ==
    \E i \in 1..Len(p) :
        /\ p[i] = Keyword
        /\ (i = 1 \/ p[i-1] \notin WordChars)
        /\ (i = Len(p) \/ p[i+1] \notin WordChars)

\* the last index of the match of \r?\n\s*\r?\n that starts with the newline
\* at position p (the longest one: \s* is greedy), or 0 when none starts there
SepEnd(s, p) ==
    IF s[p] # "\n" THEN 0
    ELSE LET ends == {q \in (p+1)..Len(s) :
                         /\ s[q] = "\n"
                         /\ \A j \in (p+1)..(q-1) : s[j] \in Whitespace}
         IN  IF ends = {} THEN 0
             ELSE CHOOSE q \in ends : \A r \in ends : q >= r

\* re.split: the pieces between the leftmost non-overlapping matches
RECURSIVE SplitFrom(_, _, _)
SplitFrom(s, start, p) ==
    IF p > Len(s) THEN <<SubSeq(s, start, Len(s))>>
    ELSE LET e == SepEnd(s, p)
         IN  IF e = 0 THEN SplitFrom(s, start, p + 1)
             ELSE <<SubSeq(s, start, p - 1)>> \o SplitFrom(s, e + 1, e + 1)

split_paragraphs(txt) ==
    LET parts == SplitFrom(txt, 1, 1)
        stripped == [i \in 1..Len(parts) |-> Strip(parts[i])]
    IN  SelectSeq(stripped, LAMBDA p : p # <<>>)

\* sep.join(ps)
RECURSIVE Join(_, _)
Join(sep, ps) ==
    IF ps = <<>> THEN <<>>
    ELSE IF Len(ps) = 1 THEN ps[1]
    ELSE ps[1] \o sep \o Join(sep, Tail(ps))

\* "\n\n".join(ps)
JoinBlank(ps) == Join(<<"\n", "\n">>, ps)

\* paras[start:end] for 0 <= start, end <= len(paras)
Slice(paras, start, end) == SubSeq(paras, start + 1, end)

\* lines 49-54: the windows of the matching paragraphs, in index order
RECURSIVE HitsFrom(_, _, _)
HitsFrom(paras, radius, i) ==
    IF i >= Len(paras) THEN <<>>
    ELSE LET start == Max(0, i - radius)
             end == Min(Len(paras), i + radius + 1)
             rest == HitsFrom(paras, radius, i + 1)
         IN  IF PatternSearch(paras[i + 1])
             THEN <<JoinBlank(Slice(paras, start, end))>> \o rest
             ELSE rest

\* lines 55-60: dedupe preserving order
RECURSIVE Dedupe(_, _)
Dedupe(hits, seenSet) ==
    IF hits = <<>> THEN <<>>
    ELSE IF Head(hits) \notin seenSet
         THEN <<Head(hits)>> \o Dedupe(Tail(hits), seenSet \cup {Head(hits)})
         ELSE Dedupe(Tail(hits), seenSet)

\* a slip that drops the dedupe loop of lines 56-60
digest_for_nodedupe(text, radius) == HitsFrom(split_paragraphs(text), radius, 0)

\* a slip in line 53: the window stops one paragraph early
digest_for_shortwindow(text, radius) ==
    LET paras == split_paragraphs(text)
        win(i) == JoinBlank(Slice(paras, Max(0, i - radius), Min(Len(paras), i + radius)))
        idx == {i \in 0..(Len(paras) - 1) : PatternSearch(paras[i + 1])}
        F[i \in 0..Len(paras)] ==
            IF i = Len(paras) THEN <<>>
            ELSE IF i \in idx THEN <<win(i)>> \o F[i + 1] ELSE F[i + 1]
    IN  Dedupe(F[0], {})

digest_for(text, radius) == Dedupe(HitsFrom(split_paragraphs(text), radius, 0), {})


(***************************************************************************)
(* State.                                                                  *)
(***************************************************************************)
VARIABLES
    \* the file system
    seenState,       \* state/seen.json: "absent", "json" or "corrupt"
    seenFile,        \* the mapping seen.json holds when it is "json"
    transcripts,     \* transcripts/: path -> text of the file
    newFilesExists,  \* whether new_files.txt exists
    newFiles,        \* the text of new_files.txt
    \* the scanner process
    pc,              \* "idle", or "rows" inside the loop of line 80
    seen,            \* the in-memory record
    downloaded,      \* the list of line 46
    to_check,        \* line 77
    i,               \* the loop index of line 80
    row,             \* the row of this run inspected last, and how that ended
    \* the digester process
    outbox,          \* the emails yag.send was given by the last invocation
    \* the processes' runs
    clock,           \* invocations so far; also the time of datetime.now
    proc,            \* who acted last: "none", "scanner", "digester", "external"
    exit,            \* how the last invocation ended: "none", "ok", "error"
    \* history
    runSaves,        \* the (key, path) pairs download.save_as stored in this run
    dlCount,         \* key -> downloads of it by completed scanner runs
    producer,        \* the scanner run that wrote new_files.txt (0: none)
    emailCount,      \* scanner run -> digester emails sent from its list
    \* calls of the pure functions
    name, safe,      \* sanitize: argument and result
    text, radius, uniq,  \* digest_for: arguments and result
    returned         \* whether the call has returned

fsVars == <<seenState, seenFile, transcripts, newFilesExists, newFiles>>
scanVars == <<pc, seen, downloaded, to_check, i, row>>
histVars == <<runSaves, dlCount, producer, emailCount>>
callVars == <<name, safe, text, radius, uniq, returned>>
vars == <<fsVars, scanVars, outbox, clock, proc, exit, histVars, callVars>>

(***************************************************************************)
(* Mappings (dict, directory).                                             *)
(***************************************************************************)
EmptyMap == <<>>
Put(m, k, v) == [x \in (DOMAIN m) \cup {k} |-> IF x = k THEN v ELSE m[x]]
Remove(m, k) == [x \in (DOMAIN m) \ {k} |-> m[x]]

(***************************************************************************)
(* The portal's rows and the documents behind them.                        *)
(***************************************************************************)
\* titles as inner_text().strip() returns them; the last two differ only in
\* a character that sanitize replaces
Titles == {<<"a">>, <<"a", "/">>, <<"a", "_">>}
\* the href of the "Download Document" link; <<>> when get_attribute
\* returns None or "" or raises
NoHref == <<>>
Hrefs == {NoHref, <<"/", "d">>}
\* the text the "As Text" export delivers: two paragraphs, the second with
\* the keyword
Docs == {<<"w", "\n", "\n", "k">>}

NoRow == [outcome |-> "none", title |-> <<>>, href |-> NoHref]
InspectedRow(t, h, o) == [outcome |-> o, title |-> t, href |-> h]

\* lines 90-99
RowKey(title, href) == IF href # NoHref THEN href ELSE title

\* lines 101-102; str(out_path)
OutPath(title) == <<"/">> \o sanitize(title) \o <<".", "t", "x", "t">>

Keys == Titles \cup (Hrefs \ {NoHref})

(***************************************************************************)
(* The scanner  (scan_and_download.py 33-145)                              *)
(***************************************************************************)
\* lines 33-39
load_seen == IF seenState = "json" THEN seenFile ELSE EmptyMap

\* lines 41-42
save_seen(record) == seenState' = "json" /\ seenFile' = record

\* a slip in line 105 that consults the output file alone
AlreadyHave_fileonly(key, out_path) == out_path \in DOMAIN transcripts

\* a slip in line 105 that needs both checks to agree
AlreadyHave_and(key, out_path) == key \in DOMAIN seen /\ out_path \in DOMAIN transcripts

\* line 105
AlreadyHave(key, out_path) == key \in DOMAIN seen \/ out_path \in DOMAIN transcripts

\* a slip in line 107 that overwrites the entry
Preexisting_overwrite(key, title) == [title |-> title, saved |-> "preexisting"]

\* line 107: seen.get(key, {"title": title, "saved": "preexisting"})
Preexisting(key, title) ==
    IF key \in DOMAIN seen THEN seen[key]
    ELSE [title |-> title, saved |-> "preexisting"]

\* datetime.now(timezone.utc).isoformat()
Now == ToString(clock)

\* a slip in lines 143-145 that writes the list unconditionally
NewFilesWritten_always(dl) == TRUE

\* line 143
NewFilesWritten(dl) == dl # <<>>

Running == pc = "rows"

\* lines 45-78, the structural steps succeeding
ScanStart ==
    /\ pc = "idle" /\ clock < MaxRuns
    /\ \E total \in 0..MaxRows : to_check' = Min(total, MAX_RESULTS)
    /\ clock' = clock + 1
    /\ seen' = load_seen
    /\ downloaded' = <<>>
    /\ i' = 0
    /\ row' = NoRow
    /\ runSaves' = <<>>
    /\ pc' = "rows"
    /\ proc' = "scanner" /\ exit' = "none"
    /\ UNCHANGED <<fsVars, outbox, dlCount, producer, emailCount, callVars>>

\* lines 54-65: goto, wait_for_selector or click raises
ScanStructuralFailure ==
    /\ pc = "idle" /\ clock < MaxRuns
    /\ clock' = clock + 1
    /\ row' = NoRow
    /\ proc' = "scanner" /\ exit' = "error"
    /\ UNCHANGED <<fsVars, pc, seen, downloaded, to_check, i, outbox, histVars, callVars>>

\* lines 85-88: the title cannot be read
RowUnreadable ==
    /\ Running /\ i < to_check
    /\ row' = InspectedRow(<<>>, NoHref, "unreadable")
    /\ i' = i + 1
    /\ UNCHANGED <<fsVars, pc, seen, downloaded, to_check, outbox, clock, proc, exit,
                   histVars, callVars>>

\* lines 105-108
RowAlreadyHave ==
    /\ Running /\ i < to_check
    /\ \E t \in Titles, h \in Hrefs :
        LET key == RowKey(t, h) IN
        /\ AlreadyHave(key, OutPath(t))
        /\ seen' = Put(seen, key, Preexisting(key, t))
        /\ row' = InspectedRow(t, h, "have")
    /\ i' = i + 1
    /\ UNCHANGED <<fsVars, pc, downloaded, to_check, outbox, clock, proc, exit,
                   histVars, callVars>>

\* lines 110-139, every wait succeeding
RowDownload ==
    /\ Running /\ i < to_check
    /\ \E t \in Titles, h \in Hrefs, doc \in Docs :
        LET key == RowKey(t, h)
            out_path == OutPath(t) IN
        /\ ~AlreadyHave(key, out_path)
        /\ transcripts' = Put(transcripts, out_path, doc)
        /\ downloaded' = Append(downloaded, out_path)
        /\ seen' = Put(seen, key, [title |-> t, saved |-> Now])
        /\ runSaves' = Append(runSaves, [key |-> key, path |-> out_path])
        /\ row' = InspectedRow(t, h, "saved")
    /\ i' = i + 1
    /\ UNCHANGED <<seenState, seenFile, newFilesExists, newFiles, pc, to_check, outbox,
                   clock, proc, exit, dlCount, producer, emailCount, callVars>>

\* lines 111-123: a click or wait raises PWTimeout, which nothing catches:
\* it leaves the loop and scan_and_download
RowTimeout ==
    /\ Running /\ i < to_check
    /\ \E t \in Titles, h \in Hrefs :
        /\ ~AlreadyHave(RowKey(t, h), OutPath(t))
        /\ row' = InspectedRow(t, h, "timeout")
    /\ pc' = "idle"
    /\ seen' = EmptyMap /\ downloaded' = <<>> /\ to_check' = 0 /\ i' = 0
    /\ exit' = "error"
    /\ UNCHANGED <<fsVars, outbox, clock, proc, histVars, callVars>>

\* lines 141-145
ScanFinish ==
    /\ Running /\ i = to_check
    /\ save_seen(seen)
    /\ IF NewFilesWritten(downloaded)
       THEN /\ newFilesExists' = TRUE
            /\ newFiles' = Join(<<"\n">>, downloaded)
            /\ producer' = clock
            /\ emailCount' = Put(emailCount, clock, 0)
       ELSE UNCHANGED <<newFilesExists, newFiles, producer, emailCount>>
    /\ dlCount' = [k \in Keys |->
                     dlCount[k] + Cardinality({j \in 1..Len(runSaves) : runSaves[j].key = k})]
    /\ pc' = "idle"
    /\ seen' = EmptyMap /\ downloaded' = <<>> /\ to_check' = 0 /\ i' = 0
    /\ row' = NoRow
    /\ exit' = "ok"
    /\ UNCHANGED <<transcripts, outbox, clock, proc, runSaves, callVars>>

(***************************************************************************)
(* The digester  (send_email_all.py 63-106)                                *)
(***************************************************************************)
\* PARAGRAPH_RADIUS of the environment, by default (line 27)
PARAGRAPH_RADIUS == 0

\* str.splitlines(), for the line ends "\n", "\r" and "\r\n"
RECURSIVE splitlines(_)
splitlines(s) ==
    LET brk == {j \in 1..Len(s) : s[j] \in {"\n", "\r"}}
    IN  IF s = <<>> THEN <<>>
        ELSE IF brk = {} THEN <<s>>
        ELSE LET b == CHOOSE j \in brk : \A l \in brk : j <= l
                 e == IF s[b] = "\r" /\ b < Len(s) /\ s[b + 1] = "\n" THEN b + 1 ELSE b
             IN  <<SubSeq(s, 1, b - 1)>> \o splitlines(SubSeq(s, e + 1, Len(s)))

\* a slip in line 69 that keeps the blank lines
ReadList_keepblank(txt) ==
    LET lines == splitlines(txt)
    IN  [j \in 1..Len(lines) |-> Strip(lines[j])]

\* line 69: the stripped non-blank lines of new_files.txt
ReadList(txt) ==
    LET lines == splitlines(txt)
    IN  SelectSeq([j \in 1..Len(lines) |-> Strip(lines[j])], LAMBDA ln : ln # <<>>)

\* Path(path).name
PathName(path) == Tail(path)

\* lines 78-81: the listed files that exist
Existing(files) == SelectSeq(files, LAMBDA path : path \in DOMAIN transcripts)

\* lines 82-87: the section of one file
Section(path) ==
    LET snippets == digest_for(transcripts[path], PARAGRAPH_RADIUS)
    IN  [name |-> PathName(path), matches |-> Len(snippets), snippets |-> snippets]

RECURSIVE SumMatches(_)
SumMatches(sections) ==
    IF sections = <<>> THEN 0 ELSE Head(sections).matches + SumMatches(Tail(sections))

\* lines 74-105: what yag.send is given
Email(files) ==
    LET present == Existing(files)
        sections == [j \in 1..Len(present) |-> Section(present[j])]
    IN  [subject |-> [files |-> Len(files), matches |-> SumMatches(sections)],
         sections |-> sections,
         attachments |-> present]

\* lines 64-67
DigestNoList ==
    /\ pc = "idle" /\ clock < MaxRuns
    /\ ~newFilesExists
    /\ clock' = clock + 1
    /\ outbox' = <<>>
    /\ proc' = "digester" /\ exit' = "ok"
    /\ UNCHANGED <<fsVars, scanVars, histVars, callVars>>

\* lines 69-72
DigestEmptyList ==
    /\ pc = "idle" /\ clock < MaxRuns
    /\ newFilesExists
    /\ ReadList(newFiles) = <<>>
    /\ clock' = clock + 1
    /\ outbox' = <<>>
    /\ proc' = "digester" /\ exit' = "ok"
    /\ UNCHANGED <<fsVars, scanVars, histVars, callVars>>

\* lines 74-106
DigestSend ==
    /\ pc = "idle" /\ clock < MaxRuns
    /\ newFilesExists
    /\ ReadList(newFiles) # <<>>
    /\ clock' = clock + 1
    /\ outbox' = <<Email(ReadList(newFiles))>>
    /\ emailCount' = IF producer = 0 THEN emailCount
                     ELSE [emailCount EXCEPT ![producer] = @ + 1]
    /\ proc' = "digester" /\ exit' = "ok"
    /\ UNCHANGED <<fsVars, scanVars, runSaves, dlCount, producer, callVars>>

(***************************************************************************)
(* The environment: a transcript is deleted between runs (the case line 80 *)
(* of send_email_all.py and line 105 of scan_and_download.py provide for). *)
(***************************************************************************)
DeleteTranscript ==
    /\ pc = "idle"
    /\ \E path \in DOMAIN transcripts : transcripts' = Remove(transcripts, path)
    /\ proc' = "external"
    /\ UNCHANGED <<seenState, seenFile, newFilesExists, newFiles, scanVars, outbox,
                   clock, exit, histVars, callVars>>

(***************************************************************************)
(* The specification of the two processes.                                 *)
(***************************************************************************)
NoCall ==
    /\ name = <<>> /\ safe = <<>>
    /\ text = <<>> /\ radius = 0 /\ uniq = <<>>
    /\ returned = FALSE

NoRun ==
    /\ pc = "idle" /\ seen = EmptyMap /\ downloaded = <<>> /\ to_check = 0 /\ i = 0
    /\ row = NoRow
    /\ outbox = <<>>
    /\ clock = 0 /\ proc = "none" /\ exit = "none"
    /\ runSaves = <<>> /\ dlCount = [k \in Keys |-> 0]
    /\ producer = 0 /\ emailCount = EmptyMap

NoFiles ==
    /\ seenFile = EmptyMap
    /\ transcripts = EmptyMap
    /\ newFiles = <<>>

Init ==
    \* seen.json is absent or unreadable; new_files.txt is absent or blank
    /\ seenState \in {"absent", "corrupt"}
    /\ seenFile = EmptyMap
    /\ transcripts = EmptyMap
    /\ newFilesExists \in BOOLEAN
    /\ newFiles = IF newFilesExists THEN <<"\n", " ">> ELSE <<>>
    /\ NoRun
    /\ NoCall

Next ==
    \/ ScanStart
    \/ ScanStructuralFailure
    \/ RowUnreadable
    \/ RowAlreadyHave
    \/ RowDownload
    \/ RowTimeout
    \/ ScanFinish
    \/ DigestNoList
    \/ DigestEmptyList
    \/ DigestSend
    \/ DeleteTranscript

Spec == Init /\ [][Next]_vars

(***************************************************************************)
(* A call of sanitize on any title.                                        *)
(***************************************************************************)
SanInit ==
    /\ name \in Strings(TitleChars, MaxTitleLen)
    /\ safe = <<>>
    /\ text = <<>> /\ radius = 0 /\ uniq = <<>>
    /\ returned = FALSE
    /\ seenState = "absent" /\ newFilesExists = FALSE
    /\ NoFiles
    /\ NoRun

Sanitize ==
    /\ ~returned
    /\ safe' = sanitize(name)
    /\ returned' = TRUE
    /\ UNCHANGED <<fsVars, scanVars, outbox, clock, proc, exit, histVars,
                   name, text, radius, uniq>>

SanNext == Sanitize

SanSpec == SanInit /\ [][SanNext]_vars

(***************************************************************************)
(* A call of digest_for on any text and radius.                            *)
(***************************************************************************)
DigInit ==
    /\ text \in Strings(TextChars, MaxTextLen)
    /\ radius \in 0..MaxRadius
    /\ uniq = <<>>
    /\ name = <<>> /\ safe = <<>>
    /\ returned = FALSE
    /\ seenState = "absent" /\ newFilesExists = FALSE
    /\ NoFiles
    /\ NoRun

DigestFor ==
    /\ ~returned
    /\ uniq' = digest_for(text, radius)
    /\ returned' = TRUE
    /\ UNCHANGED <<fsVars, scanVars, outbox, clock, proc, exit, histVars,
                   name, safe, text, radius>>

DigNext == DigestFor

DigSpec == DigInit /\ [][DigNext]_vars

(***************************************************************************)
(* Properties of sanitize.                                                 *)
(***************************************************************************)
\* C7: for every title, sanitize(title) holds only characters of
\* [a-zA-Z0-9._ -], no two consecutive spaces, no leading or trailing
\* whitespace, and sanitizing the result again returns it unchanged.
C7_SanitizeSafeAndIdempotent ==
    returned =>
        /\ \A j \in 1..Len(safe) : safe[j] \in AllowedChars
        /\ \A j \in 1..(Len(safe) - 1) : ~(safe[j] = " " /\ safe[j + 1] = " ")
        /\ safe # <<>> => (safe[1] \notin Whitespace /\ safe[Len(safe)] \notin Whitespace)
        /\ sanitize(safe) = safe

\* a title with a character outside the class and a run of two spaces
C7_Witness ==
    /\ returned
    /\ name = <<"/", " ", " ", "a">>
    /\ safe = <<"_", " ", "a">>

(***************************************************************************)
(* Properties of digest_for.                                               *)
(***************************************************************************)
\* the indices (from 1) of the paragraphs that match a keyword
MatchingIdx(paras) == {j \in 1..Len(paras) : PatternSearch(paras[j])}

\* the elements of a set of numbers in ascending order
Ascending(S) ==
    [n \in 1..Cardinality(S) |-> CHOOSE x \in S : Cardinality({y \in S : y < x}) = n - 1]

\* C6, as stated: digest_for(text, 0) returns one snippet per matching
\* paragraph, each that paragraph's trimmed text, so as many snippets as
\* matching paragraphs.
C6_OneSnippetPerMatchingParagraph ==
    (returned /\ radius = 0) =>
        LET paras == split_paragraphs(text)
            m == Ascending(MatchingIdx(paras))
        IN  /\ Len(uniq) = Len(m)
            /\ \A j \in 1..Len(m) : uniq[j] = paras[m[j]]

\* C6, amended: digest_for(text, 0) returns one snippet per distinct text
\* among the matching paragraphs, each equal to that trimmed text, in the
\* order in which the texts first occur.
C6_OneSnippetPerDistinctMatchingText ==
    (returned /\ radius = 0) =>
        LET paras == split_paragraphs(text)
            M == MatchingIdx(paras)
            texts == {paras[j] : j \in M}
            first(p) == CHOOSE j \in M : paras[j] = p /\ \A l \in M : paras[l] = p => j <= l
        IN  /\ Len(uniq) = Cardinality(texts)
            /\ {uniq[j] : j \in 1..Len(uniq)} = texts
            /\ \A j, l \in 1..Len(uniq) : j < l => first(uniq[j]) < first(uniq[l])

\* two matching paragraphs with the same text give one snippet
C6_Witness ==
    /\ returned /\ radius = 0
    /\ text = <<"k", "\n", "\n", "k">>
    /\ Cardinality(MatchingIdx(split_paragraphs(text))) = 2
    /\ uniq = <<<<"k">>>>

\* the paragraphs lo..hi (from 1), a blank line between neighbours
RECURSIVE RefJoin(_, _, _)
RefJoin(paras, lo, hi) ==
    IF lo > hi THEN <<>>
    ELSE IF lo = hi THEN paras[hi]
    ELSE RefJoin(paras, lo, hi - 1) \o <<"\n", "\n">> \o paras[hi]

\* the reference result: per matching index in ascending order, its window
\* clamped to the document, the windows equal to an earlier one removed
RefSnippets(txt, r) ==
    LET paras == split_paragraphs(txt)
        n == Len(paras)
        m == Ascending(MatchingIdx(paras))
        \* from 0: max(0, i-r) .. min(n-1, i+r)
        all == [j \in 1..Len(m) |->
                   RefJoin(paras, Max(0, (m[j] - 1) - r) + 1, Min(n - 1, (m[j] - 1) + r) + 1)]
        kept == {j \in 1..Len(m) : \A l \in 1..(j - 1) : all[l] # all[j]}
        order == Ascending(kept)
    IN  [j \in 1..Len(order) |-> all[order[j]]]

\* C8: for every text and radius r >= 0, digest_for(text, r) is the reference
\* result, in first-occurrence order and with no two equal snippets.
C8_DigestEqualsReference ==
    returned =>
        /\ uniq = RefSnippets(text, radius)
        /\ \A j, l \in 1..Len(uniq) : j # l => uniq[j] # uniq[l]

\* two matches whose clamped windows of radius 1 are the same text
C8_Witness ==
    /\ returned /\ radius = 1
    /\ text = <<"k", "\n", "\n", "k">>
    /\ uniq = <<<<"k", "\n", "\n", "k">>>>

(***************************************************************************)
(* Properties of the scanner.                                              *)
(***************************************************************************)
\* the key and the output path of the row inspected last
LastKey == RowKey(row.title, row.href)
LastPath == OutPath(row.title)

\* C1: a key that seen.json holds when a run starts is not downloaded by
\* that run, and over all completed runs a key is downloaded at most once.
\* (seen.json is not written while a run is in its loop.)
C1_SeenKeyNeverDownloadedAgain ==
    /\ Running => \A j \in 1..Len(runSaves) : runSaves[j].key \notin DOMAIN load_seen
    /\ \A k \in Keys : dlCount[k] <= 1

\* a later run meets a key an earlier run downloaded, its file since deleted,
\* and takes it as already had
C1_Witness ==
    /\ Running /\ row.outcome = "have"
    /\ LastKey \in DOMAIN load_seen
    /\ load_seen[LastKey].saved # "preexisting"
    /\ dlCount[LastKey] = 1
    /\ LastPath \notin DOMAIN transcripts

\* C2, as stated: a failure on one row does not abort the run; the run goes
\* on and ends with save_seen having written the entries of the rows that
\* succeeded.
C2_RowFailureDoesNotAbortRun ==
    (proc = "scanner" /\ row.outcome \in {"unreadable", "timeout"}) =>
        /\ exit # "error"
        /\ pc = "idle" =>
               /\ exit = "ok"
               /\ \A j \in 1..Len(runSaves) : runSaves[j].key \in DOMAIN load_seen

\* a step that ends a run normally
ScanCompletes == pc = "rows" /\ pc' = "idle" /\ exit' = "ok"

\* C3: a completed run writes new_files.txt exactly when it downloaded
\* something, and then with the downloaded paths in download order; a run
\* without downloads leaves the file alone; seen.json is written either way.
C3_NewFilesIffDownloads ==
    [][ScanCompletes =>
        /\ seenState' = "json"
        /\ IF runSaves = <<>>
           THEN UNCHANGED <<newFilesExists, newFiles, producer>>
           ELSE /\ newFilesExists'
                /\ splitlines(newFiles') = [j \in 1..Len(runSaves) |-> runSaves[j].path]
                /\ producer' = clock]_vars

\* a completed run that downloaded two different files, listed in order
C3_Witness ==
    /\ proc = "scanner" /\ pc = "idle" /\ exit = "ok"
    /\ Len(runSaves) = 2
    /\ runSaves[1].path # runSaves[2].path
    /\ newFilesExists
    /\ splitlines(newFiles) = <<runSaves[1].path, runSaves[2].path>>
    /\ producer = clock

\* C9: a row is downloaded only if its key is not in the record and no file
\* is at its output path; either check alone blocks the download, and the
\* key of a blocked row is in the record afterwards.
C9_EitherCheckBlocks ==
    [][(Running /\ i' = i + 1 /\ row'.outcome # "unreadable") =>
        LET key == RowKey(row'.title, row'.href)
            known == key \in DOMAIN seen
            onDisk == OutPath(row'.title) \in DOMAIN transcripts
            fetched == downloaded' # downloaded \/ transcripts' # transcripts
        IN  /\ fetched => (~known /\ ~onDisk)
            /\ (known \/ onDisk) => (~fetched /\ key \in DOMAIN seen')]_vars

\* a row whose file is there under a key the record did not hold
C9_Witness ==
    /\ Running /\ row.outcome = "have"
    /\ LastPath \in DOMAIN transcripts
    /\ LastKey \notin DOMAIN load_seen
    /\ seen[LastKey].saved = "preexisting"

\* C10: every entry seen.json holds when a run loads it is in the in-memory
\* record, unchanged, at every step of the run, and in seen.json after it.
C10_SeenAppendOnly ==
    /\ [](Running => \A k \in DOMAIN load_seen : k \in DOMAIN seen /\ seen[k] = load_seen[k])
    /\ [][seenState = "json" =>
            /\ seenState' = "json"
            /\ \A k \in DOMAIN seenFile : k \in DOMAIN seenFile' /\ seenFile'[k] = seenFile[k]]_vars

\* a recorded key met again under another title, and a new key added
C10_Witness ==
    /\ Running /\ row.outcome = "have"
    /\ LastKey \in DOMAIN load_seen
    /\ load_seen[LastKey].title # row.title
    /\ load_seen[LastKey].saved # "preexisting"
    /\ DOMAIN seen # DOMAIN load_seen

(***************************************************************************)
(* Properties of the digester.                                             *)
(***************************************************************************)
\* C4, as stated: the list a scanner run writes is emailed by exactly one
\* digester run: never twice, and not replaced by a later list before it
\* was emailed.
C4_ListConsumedExactlyOnce ==
    \A r \in DOMAIN emailCount :
        /\ emailCount[r] <= 1
        /\ r # producer => emailCount[r] = 1

\* the files new_files.txt lists: its lines that are not blank, trimmed
ListedFiles ==
    LET lines == splitlines(newFiles)
        idx == {j \in 1..Len(lines) : \E c \in 1..Len(lines[j]) :
                                         lines[j][c] \notin Whitespace}
        order == Ascending(idx)
    IN  [j \in 1..Len(order) |-> Strip(lines[order[j]])]

SectionNames(email) == [j \in 1..Len(email.sections) |-> email.sections[j].name]

\* C5, as stated: no email and a clean exit when new_files.txt is absent or
\* has no non-blank line; otherwise one email whose sections and attachments
\* cover all the listed files.
C5_EmailCoversAllListed ==
    proc = "digester" =>
        /\ exit = "ok"
        /\ IF ~newFilesExists \/ ListedFiles = <<>>
           THEN outbox = <<>>
           ELSE /\ Len(outbox) = 1
                /\ outbox[1].attachments = ListedFiles
                /\ SectionNames(outbox[1]) =
                       [j \in 1..Len(ListedFiles) |-> PathName(ListedFiles[j])]

\* C5, amended: ... otherwise one email whose sections and attachments cover,
\* in list order, the listed files that exist; a listed file that is gone
\* is left out.
C5_EmailCoversExistingListed ==
    proc = "digester" =>
        /\ exit = "ok"
        /\ IF ~newFilesExists \/ ListedFiles = <<>>
           THEN outbox = <<>>
           ELSE LET there == Ascending({j \in 1..Len(ListedFiles) :
                                           ListedFiles[j] \in DOMAIN transcripts})
                    present == [j \in 1..Len(there) |-> ListedFiles[there[j]]]
                IN  /\ Len(outbox) = 1
                    /\ outbox[1].attachments = present
                    /\ SectionNames(outbox[1]) =
                           [j \in 1..Len(present) |-> PathName(present[j])]
                    /\ outbox[1].subject.files = Len(ListedFiles)

\* an email for a list of two files of which one is gone
C5_Witness ==
    /\ proc = "digester" /\ exit = "ok"
    /\ Len(ListedFiles) = 2
    /\ Len(outbox) = 1
    /\ Len(outbox[1].attachments) = 1

=============================================================================
